---- MODULE Spec2Model ----
(***************************************************************************)
(* Model of the bls crate's core: the EngineBLS trait (src/engine.rs) with *)
(* its three strategies UsualBLS, TinyBLS and PoP, the capability markers, *)
(* and Message::new (src/lib.rs).                                          *)
(*                                                                         *)
(* The pairing library behind `pairing::Engine` is modelled by a small     *)
(* bilinear structure: G1 and G2 are cyclic of prime order R (a point is   *)
(* its discrete logarithm), the multiplicative group of Fqk is             *)
(* Z_R x Z_Cofactor written additively, Fqk has a zero, the Miller loop    *)
(* multiplies line values that carry a Z_Cofactor part, and the final      *)
(* exponentiation raises to the power Cofactor, which removes that part.   *)
(***************************************************************************)
EXTENDS Integers, Sequences, FiniteSets, TLC

\* ------------------------------------------------------------------ bounds
MaxPairs == 2
MaxDepth == 2
MaxLen == 1

\* ------------------------------------------------- the underlying library
R == 7
Cofactor == 3

Scalar == 0 .. (R - 1)
Groups == {"G1", "G2"}

Point(g, k) == [grp |-> g, v |-> k % R]
one(g) == Point(g, 1)
add(p, q) == Point(p.grp, p.v + q.v)
mul(s, p) == Point(p.grp, s * p.v)
negate(p) == Point(p.grp, R - p.v)

\* prepare(): the precomputed form the Miller loop consumes.
prepare(p) == [grp |-> p.grp, pv |-> p.v, ok |-> TRUE]
\* A prepared value that is the preparation of no group element (built from
\* unchecked bytes): its line evaluations vanish.
Degenerate(g) == [grp |-> g, pv |-> 0, ok |-> FALSE]

Messages == {"test", "other"}
\* CurveProjective::hash: a fixed map from bytes to a point of the group.
hash(g, m) == IF m = "test" THEN Point(g, 3) ELSE Point(g, 5)

FqkZero == [z |-> TRUE, e |-> 0, c |-> 0]
FqkOne == [z |-> FALSE, e |-> 0, c |-> 0]
FqkMul(a, b) ==
  IF a.z \/ b.z THEN FqkZero
  ELSE [z |-> FALSE, e |-> (a.e + b.e) % R, c |-> (a.c + b.c) % Cofactor]

RECURSIVE FqkPow(_, _)
FqkPow(a, n) == IF n = 0 THEN FqkOne ELSE FqkMul(a, FqkPow(a, n - 1))

None == [some |-> FALSE, val |-> FqkZero]
Some(x) == [some |-> TRUE, val |-> x]

\* The line value one (G1, G2) pair contributes to Engine::miller_loop.
Line(p, q) ==
  IF ~p.ok \/ ~q.ok THEN FqkZero
  ELSE IF p.pv = 0 \/ q.pv = 0 THEN FqkOne
  ELSE [z |-> FALSE, e |-> (p.pv * q.pv) % R, c |-> (p.pv + 2 * q.pv) % Cofactor]

RECURSIVE E_miller_loop(_)
E_miller_loop(i) ==
  IF i = <<>> THEN FqkOne
  ELSE FqkMul(Line(i[1][1], i[1][2]), E_miller_loop(Tail(i)))

E_final_exponentiation(e) == IF e.z THEN None ELSE Some(FqkPow(e, Cofactor))

\* Engine::pairing(p, q), p in G1 and q in G2.
E_pairing(p, q) ==
  E_final_exponentiation(E_miller_loop(<<<<prepare(p), prepare(q)>>>>)).val

\* ------------------------------------------------------------ strategies
\* A strategy type is the sequence of its constructors, outermost first:
\* <<"PoP", "TinyBLS">> is PoP<TinyBLS<E>>.
BaseStrategies == {"UsualBLS", "TinyBLS"}

RECURSIVE Engine(_)
Engine(ty) == IF Head(ty) = "PoP" THEN Engine(Tail(ty)) ELSE "E"

\* type Scalar = <Self::Engine as ScalarEngine>::Fr
ScalarOf(ty) == IF Engine(ty) = "E" THEN Scalar ELSE {}

RECURSIVE PublicKeyGroup(_)
PublicKeyGroup(ty) ==
  IF Head(ty) = "PoP" THEN PublicKeyGroup(Tail(ty))
  ELSE IF Head(ty) = "UsualBLS" THEN "G1" ELSE "G2"

RECURSIVE SignatureGroup(_)
SignatureGroup(ty) ==
  IF Head(ty) = "PoP" THEN SignatureGroup(Tail(ty))
  ELSE IF Head(ty) = "UsualBLS" THEN "G2" ELSE "G1"

hash_to_signature_curve(ty, message) == hash(SignatureGroup(ty), message)

\* The closures of the two miller_loop implementations.
UsualBLS_map(t) == t
\* Variant: TinyBLS keeps the tuple as UsualBLS does.
TinyBLS_map_unswapped(t) == t

TinyBLS_map(t) == <<t[2], t[1]>>

\* What one item of the iterator handed to Self::miller_loop becomes in the
\* Vec handed to Engine::miller_loop; PoP passes the iterator to E.
RECURSIVE miller_loop_map(_, _)
\* Variant: PoP collects in UsualBLS's order instead of calling E.
miller_loop_map_unforwarded(ty, t) ==
  IF Head(ty) = "PoP" \/ Head(ty) = "UsualBLS" THEN UsualBLS_map(t)
  ELSE TinyBLS_map(t)

miller_loop_map(ty, t) ==
  IF Head(ty) = "PoP" THEN miller_loop_map(Tail(ty), t)
  ELSE IF Head(ty) = "UsualBLS" THEN UsualBLS_map(t) ELSE TinyBLS_map(t)

miller_loop_vec(ty, i) == [k \in 1 .. Len(i) |-> miller_loop_map(ty, i[k])]
miller_loop(ty, i) == E_miller_loop(miller_loop_vec(ty, i))

\* Variant: the Miller loop's output is passed on unexponentiated.
final_exponentiation_skipped(ty, e) == IF e.z THEN None ELSE Some(e)

final_exponentiation(ty, e) ==
  IF Engine(ty) = "E" THEN E_final_exponentiation(e) ELSE None

RECURSIVE pairing(_, _, _)
pairing(ty, p, q) ==
  IF Head(ty) = "PoP" THEN pairing(Tail(ty), p, q)
  ELSE IF Head(ty) = "UsualBLS" THEN E_pairing(p, q) ELSE E_pairing(q, p)

\* Variant: the generator is used without negate().
g1_generator_unnegated(ty) == one(PublicKeyGroup(ty))

g1_minus_generator(ty) == negate(one(PublicKeyGroup(ty)))

\* The pair verify_prepared chains after the caller's iterator.
once_pair(ty, signature) == <<prepare(g1_minus_generator(ty)), signature>>

\* The value the final comparison yields.
compare(x) == x = FqkOne

\* verify_prepared as one expression: "true", "false", or "panic" when the
\* unwrap meets None.
verify_prepared(ty, signature, inputs) ==
  LET r == final_exponentiation(ty,
             miller_loop(ty, Append(inputs, once_pair(ty, signature))))
  IN IF ~r.some THEN "panic" ELSE IF compare(r.val) THEN "true" ELSE "false"

\* ---------------------------------------------------- capability markers
RECURSIVE EngineBLS(_)
EngineBLS(ty) ==
  /\ ty # <<>>
  /\ IF Head(ty) = "PoP" THEN EngineBLS(Tail(ty))
     ELSE Head(ty) \in BaseStrategies /\ Len(ty) = 1

UnmutatedKeys(ty) ==
  \/ Head(ty) = "TinyBLS" /\ EngineBLS(ty)
  \/ Head(ty) = "UsualBLS" /\ EngineBLS(ty)
  \/ Head(ty) = "PoP" /\ EngineBLS(Tail(ty))

\* Variant: a blanket impl that also covers PoP.
DeserializePublicKey_blanket(ty) == EngineBLS(ty)

DeserializePublicKey(ty) ==
  \/ Head(ty) = "TinyBLS" /\ EngineBLS(ty)
  \/ Head(ty) = "UsualBLS" /\ EngineBLS(ty)

\* -------------------------------------------------------- Message::new
MESSAGE_SIZE == 32
U64_BYTES == 8

Bytes == {0, 1}
ByteSeqs == UNION {[1 .. n -> Bytes] : n \in 0 .. MaxLen}

\* u64::to_le_bytes
RECURSIVE ShiftRightBytes(_, _)
ShiftRightBytes(l, k) == IF k = 0 THEN l ELSE ShiftRightBytes(l \div 256, k - 1)

to_le_bytes(l) == [k \in 1 .. U64_BYTES |-> ShiftRightBytes(l, k - 1) % 256]

\* Shake128 as a sponge over the absorbed bytes: a running state folded
\* over the input, then squeezed byte by byte.
RECURSIVE Absorb(_, _)
Absorb(st, buf) ==
  IF buf = <<>> THEN st
  ELSE Absorb((st * 31 + Head(buf) + 1) % 65521, Tail(buf))

xof_result(buf, n) == [k \in 1 .. n |-> (Absorb(7, buf) * k + k) % 256]

\* ------------------------------------------------------------------ state
VARIABLES
  ty,         \* the strategy type Self
  pc,         \* position inside the running call
  mode,       \* which trait function was called: "verify" or "miller"
  signature,  \* verify_prepared's signature argument
  inputs,     \* the caller's sequence, as passed
  iter,       \* what the caller's iterator has not yielded yet
  once,       \* the chained iter::once still holds its item
  taken,      \* items the iterator chain has yielded, in order
  vec,        \* the Vec collected for Engine::miller_loop
  fqk,        \* the Miller loop's output
  fe,         \* final_exponentiation's Option
  ret,        \* verify_prepared's return value
  nML, nFE, nCmp,  \* calls of Engine::miller_loop, final_exponentiation, ==
  mctx, mmsg, \* Message::new's arguments, per call
  mh,         \* bytes the hasher has absorbed, per call
  mpc,        \* position inside Message::new, per call
  mout        \* the Message returned, per call

evars == <<ty, pc, mode, signature, inputs, iter, once, taken, vec, fqk, fe,
           ret, nML, nFE, nCmp>>
mvars == <<mctx, mmsg, mh, mpc, mout>>
vars == <<evars, mvars>>

Inst == {1, 2}

PreparedPublicKeys(t) == {prepare(Point(PublicKeyGroup(t), k)) : k \in Scalar}
PreparedHashes(t) == {prepare(hash_to_signature_curve(t, m)) : m \in Messages}
PreparedSignatures(t) ==
  {prepare(Point(SignatureGroup(t), k)) : k \in Scalar}
    \cup {Degenerate(SignatureGroup(t))}
Pairs(t) == PreparedPublicKeys(t) \X PreparedHashes(t)
InputSeqs(t) == UNION {[1 .. n -> Pairs(t)] : n \in 0 .. MaxPairs}

EInit ==
  /\ ty \in {<<"UsualBLS">>, <<"TinyBLS">>}
  /\ pc = "idle"
  /\ mode = "none"
  /\ signature = prepare(Point(SignatureGroup(ty), 0))
  /\ inputs = <<>>
  /\ iter = <<>>
  /\ once = FALSE
  /\ taken = <<>>
  /\ vec = <<>>
  /\ fqk = FqkOne
  /\ fe = None
  /\ ret = "none"
  /\ nML = 0 /\ nFE = 0 /\ nCmp = 0

MInit ==
  /\ mctx = [c \in Inst |-> <<>>]
  /\ mmsg = [c \in Inst |-> <<>>]
  /\ mh = [c \in Inst |-> <<>>]
  /\ mpc = [c \in Inst |-> "idle"]
  /\ mout = [c \in Inst |-> <<>>]

Init == EInit /\ MInit

\* ------------------------------------------------------- engine actions
\* PoP(e): wrap the strategy once more.
Wrap ==
  /\ pc = "idle"
  /\ Len(ty) <= MaxDepth
  /\ ty' = <<"PoP">> \o ty
  /\ signature' = prepare(Point(SignatureGroup(ty'), 0))
  /\ UNCHANGED <<pc, mode, inputs, iter, once, taken, vec, fqk, fe, ret,
                 nML, nFE, nCmp>>
  /\ UNCHANGED mvars

\* Self::verify_prepared(signature, inputs): the generator is negated and the
\* chained iterator is handed to Self::miller_loop.
CallVerifyPrepared ==
  /\ pc = "idle"
  /\ \E sig \in PreparedSignatures(ty), inp \in InputSeqs(ty) :
       /\ signature' = sig
       /\ inputs' = inp
       /\ iter' = inp
  /\ once' = TRUE
  /\ mode' = "verify"
  /\ pc' = "collect"
  /\ UNCHANGED <<ty, taken, vec, fqk, fe, ret, nML, nFE, nCmp>>
  /\ UNCHANGED mvars

\* Self::miller_loop(i) called on its own.
CallMillerLoop ==
  /\ pc = "idle"
  /\ \E i \in InputSeqs(ty) :
       /\ inputs' = i
       /\ iter' = i
  /\ once' = FALSE
  /\ mode' = "miller"
  /\ pc' = "collect"
  /\ UNCHANGED <<ty, signature, taken, vec, fqk, fe, ret, nML, nFE, nCmp>>
  /\ UNCHANGED mvars

\* Variant: an item equal to one already taken is consumed but not pushed.
CollectNext_dedup ==
  /\ pc = "collect"
  /\ iter # <<>>
  /\ IF \E k \in 1 .. Len(taken) : taken[k] = Head(iter)
     THEN UNCHANGED <<taken, vec>>
     ELSE /\ taken' = Append(taken, Head(iter))
          /\ vec' = Append(vec, miller_loop_map(ty, Head(iter)))
  /\ iter' = Tail(iter)
  /\ UNCHANGED <<ty, pc, mode, signature, inputs, once, fqk, fe, ret,
                 nML, nFE, nCmp>>
  /\ UNCHANGED mvars

\* collect(): the next item of the caller's iterator is mapped and pushed.
CollectNext ==
  /\ pc = "collect"
  /\ iter # <<>>
  /\ taken' = Append(taken, Head(iter))
  /\ vec' = Append(vec, miller_loop_map(ty, Head(iter)))
  /\ iter' = Tail(iter)
  /\ UNCHANGED <<ty, pc, mode, signature, inputs, once, fqk, fe, ret,
                 nML, nFE, nCmp>>
  /\ UNCHANGED mvars

\* Variant: the chained pair is discarded instead of pushed.
CollectOnce_skipped ==
  /\ pc = "collect"
  /\ iter = <<>>
  /\ once
  /\ once' = FALSE
  /\ UNCHANGED <<ty, pc, mode, signature, inputs, iter, taken, vec, fqk, fe,
                 ret, nML, nFE, nCmp>>
  /\ UNCHANGED mvars

\* collect(): the caller's iterator is exhausted, the chained once yields.
CollectOnce ==
  /\ pc = "collect"
  /\ iter = <<>>
  /\ once
  /\ taken' = Append(taken, once_pair(ty, signature))
  /\ vec' = Append(vec, miller_loop_map(ty, once_pair(ty, signature)))
  /\ once' = FALSE
  /\ UNCHANGED <<ty, pc, mode, signature, inputs, iter, fqk, fe, ret,
                 nML, nFE, nCmp>>
  /\ UNCHANGED mvars

\* Variant: the library is called before the chained pair was collected.
MillerLoop_early ==
  /\ pc = "collect"
  /\ iter = <<>>
  /\ fqk' = E_miller_loop(vec)
  /\ nML' = nML + 1
  /\ pc' = IF mode = "miller" THEN "ml_done" ELSE "final_exp"
  /\ UNCHANGED <<ty, mode, signature, inputs, iter, once, taken, vec, fe,
                 ret, nFE, nCmp>>
  /\ UNCHANGED mvars

\* E::miller_loop(&i) on the collected Vec.
MillerLoop ==
  /\ pc = "collect"
  /\ iter = <<>>
  /\ ~once
  /\ fqk' = E_miller_loop(vec)
  /\ nML' = nML + 1
  /\ pc' = IF mode = "miller" THEN "ml_done" ELSE "final_exp"
  /\ UNCHANGED <<ty, mode, signature, inputs, iter, once, taken, vec, fe,
                 ret, nFE, nCmp>>
  /\ UNCHANGED mvars

FinalExponentiation ==
  /\ pc = "final_exp"
  /\ fe' = final_exponentiation(ty, fqk)
  /\ nFE' = nFE + 1
  /\ pc' = "unwrap"
  /\ UNCHANGED <<ty, mode, signature, inputs, iter, once, taken, vec, fqk,
                 ret, nML, nCmp>>
  /\ UNCHANGED mvars

\* .unwrap() on Some
UnwrapSome ==
  /\ pc = "unwrap"
  /\ fe.some
  /\ pc' = "compare"
  /\ UNCHANGED <<ty, mode, signature, inputs, iter, once, taken, vec, fqk,
                 fe, ret, nML, nFE, nCmp>>
  /\ UNCHANGED mvars

\* .unwrap() on None panics
UnwrapNone ==
  /\ pc = "unwrap"
  /\ ~fe.some
  /\ pc' = "panicked"
  /\ UNCHANGED <<ty, mode, signature, inputs, iter, once, taken, vec, fqk,
                 fe, ret, nML, nFE, nCmp>>
  /\ UNCHANGED mvars

\* == Fqk::one()
Compare ==
  /\ pc = "compare"
  /\ ret' = IF compare(fe.val) THEN "true" ELSE "false"
  /\ nCmp' = nCmp + 1
  /\ pc' = "done"
  /\ UNCHANGED <<ty, mode, signature, inputs, iter, once, taken, vec, fqk,
                 fe, nML, nFE>>
  /\ UNCHANGED mvars

Next ==
  \/ Wrap
  \/ CallVerifyPrepared
  \/ CallMillerLoop
  \/ CollectNext
  \/ CollectOnce
  \/ MillerLoop
  \/ FinalExponentiation
  \/ UnwrapSome
  \/ UnwrapNone
  \/ Compare

Spec == Init /\ [][Next]_vars

\* ------------------------------------------------------ message actions
\* Message::new(context, message): let mut h = Shake128::default()
MessageNew(c) ==
  /\ mpc[c] = "idle"
  /\ \E context \in ByteSeqs, message \in ByteSeqs :
       /\ mctx' = [mctx EXCEPT ![c] = context]
       /\ mmsg' = [mmsg EXCEPT ![c] = message]
  /\ mh' = [mh EXCEPT ![c] = <<>>]
  /\ mpc' = [mpc EXCEPT ![c] = "context"]
  /\ UNCHANGED mout
  /\ UNCHANGED evars

\* Message::from(x) is Message::new(b"", x)
MessageFrom(c) ==
  /\ mpc[c] = "idle"
  /\ \E x \in ByteSeqs :
       /\ mctx' = [mctx EXCEPT ![c] = <<>>]
       /\ mmsg' = [mmsg EXCEPT ![c] = x]
  /\ mh' = [mh EXCEPT ![c] = <<>>]
  /\ mpc' = [mpc EXCEPT ![c] = "context"]
  /\ UNCHANGED mout
  /\ UNCHANGED evars

\* h.input(context)
InputContext(c) ==
  /\ mpc[c] = "context"
  /\ mh' = [mh EXCEPT ![c] = @ \o mctx[c]]
  /\ mpc' = [mpc EXCEPT ![c] = "length"]
  /\ UNCHANGED <<mctx, mmsg, mout>>
  /\ UNCHANGED evars

\* h.input(l.to_le_bytes())
InputLength(c) ==
  /\ mpc[c] = "length"
  /\ mh' = [mh EXCEPT ![c] = @ \o to_le_bytes(Len(mmsg[c]))]
  /\ mpc' = [mpc EXCEPT ![c] = "message"]
  /\ UNCHANGED <<mctx, mmsg, mout>>
  /\ UNCHANGED evars

\* h.input(message)
InputMessage(c) ==
  /\ mpc[c] = "message"
  /\ mh' = [mh EXCEPT ![c] = @ \o mmsg[c]]
  /\ mpc' = [mpc EXCEPT ![c] = "xof"]
  /\ UNCHANGED <<mctx, mmsg, mout>>
  /\ UNCHANGED evars

\* h.xof_result().read(&mut msg[..]); Message(msg)
XofResult(c) ==
  /\ mpc[c] = "xof"
  /\ mout' = [mout EXCEPT ![c] = xof_result(mh[c], MESSAGE_SIZE)]
  /\ mpc' = [mpc EXCEPT ![c] = "done"]
  /\ UNCHANGED <<mctx, mmsg, mh>>
  /\ UNCHANGED evars

NextMsg ==
  \E c \in Inst :
    \/ MessageNew(c)
    \/ MessageFrom(c)
    \/ InputContext(c)
    \/ InputLength(c)
    \/ InputMessage(c)
    \/ XofResult(c)

MsgInit == MInit /\ EInit /\ ty = <<"UsualBLS">>

SpecMsg == MsgInit /\ [][NextMsg]_vars

\* ================================================================ claims
Finished == mode = "verify" /\ pc \in {"done", "panicked"}
Outcome == IF pc = "panicked" THEN "panic" ELSE ret

publicKeyOf(s) == mul(s, one(PublicKeyGroup(ty)))
sign(s, m) == mul(s, hash_to_signature_curve(ty, m))
SinglePair(pk, m) ==
  inputs = <<<<prepare(pk), prepare(hash_to_signature_curve(ty, m))>>>>

\* C1: for every secret scalar s and message m, under every orientation,
\* verify_prepared on signature s*h against the one pair (s*g, h) returns
\* true.
C1_SignThenVerify ==
  (Finished /\ Len(inputs) = 1) =>
    \A s \in ScalarOf(ty), m \in Messages :
      (SinglePair(publicKeyOf(s), m) /\ signature = prepare(sign(s, m)))
        => Outcome = "true"

C1_Witness ==
  /\ Finished
  /\ ty = <<"TinyBLS">>
  /\ SinglePair(publicKeyOf(5), "test")
  /\ signature = prepare(sign(5, "test"))
  /\ Outcome = "true"

\* C2: when final_exponentiation yields None inside verify_prepared, the call
\* returns false (no panic, no success).
C2_NoneIsFailure ==
  (mode = "verify" /\ nFE = 1 /\ ~fe.some /\ pc # "unwrap")
    => (pc = "done" /\ ret = "false")

unprepare(x) == Point(x.grp, x.pv)

RECURSIVE PairingProduct(_, _)
PairingProduct(t, i) ==
  IF i = <<>> THEN FqkOne
  ELSE FqkMul(pairing(t, unprepare(i[1][1]), unprepare(i[1][2])),
              PairingProduct(t, Tail(i)))

\* e(g, sig) = product over i of e(pk_i, H(m_i)), each pairing evaluated and
\* finally exponentiated on its own.
TwoSided ==
  pairing(ty, one(PublicKeyGroup(ty)), unprepare(signature))
    = PairingProduct(ty, inputs)

\* C3: for every signature and every sequence of pairs (empty and with
\* duplicates included), verify_prepared returns true exactly when the
\* two-sided equation e(g, sig) = prod e(pk_i, H(m_i)) holds.
C3_SingleSidedIffTwoSided ==
  (mode = "verify" /\ pc = "done") => ((ret = "true") <=> TwoSided)

C3_Witness ==
  /\ mode = "verify" /\ pc = "done"
  /\ Len(inputs) = 2 /\ inputs[1] = inputs[2]
  /\ inputs[1][1].pv = 2
  /\ ty = <<"TinyBLS">>
  /\ ret = "true" /\ TwoSided

\* C4: a valid single-signer signature s*h moved by any nonzero element d of
\* the SignatureGroup no longer verifies.
C4_TamperedSignatureRejected ==
  (Finished /\ Len(inputs) = 1) =>
    \A s \in ScalarOf(ty), m \in Messages, d \in 1 .. (R - 1) :
      ( /\ SinglePair(publicKeyOf(s), m)
        /\ signature = prepare(add(sign(s, m), Point(SignatureGroup(ty), d))) )
        => Outcome = "false"

C4_Witness ==
  /\ Finished
  /\ SinglePair(publicKeyOf(5), "test")
  /\ signature
       = prepare(add(sign(5, "test"), hash_to_signature_curve(ty, "test")))
  /\ Outcome = "false"

\* C5: distinct (context, message) pairs feed distinct byte streams to the
\* hash.
C5_EncodingInjective ==
  ( /\ mpc[1] \in {"xof", "done"}
    /\ mpc[2] \in {"xof", "done"}
    /\ <<mctx[1], mmsg[1]>> # <<mctx[2], mmsg[2]>> )
    => mh[1] # mh[2]

\* C6: UnmutatedKeys holds for UsualBLS, TinyBLS and every PoP<E>;
\* DeserializePublicKey holds exactly for the two base strategies, for no
\* PoP<...> at any depth, and implies UnmutatedKeys.
C6_Capabilities ==
  /\ EngineBLS(ty)
  /\ UnmutatedKeys(ty)
  /\ DeserializePublicKey(ty) <=> (ty \in {<<"UsualBLS">>, <<"TinyBLS">>})
  /\ Head(ty) = "PoP" => ~DeserializePublicKey(ty)
  /\ DeserializePublicKey(ty) => UnmutatedKeys(ty)

C6_Witness ==
  /\ ty = <<"PoP", "PoP", "TinyBLS">>
  /\ UnmutatedKeys(ty)
  /\ ~DeserializePublicKey(ty)

C8_AggregateVerifies ==
  (Finished /\ Len(inputs) = 1) =>
    \A s1 \in ScalarOf(ty), s2 \in ScalarOf(ty), m \in Messages :
      ( /\ s1 # s2
        /\ SinglePair(add(publicKeyOf(s1), publicKeyOf(s2)), m)
        /\ signature = prepare(add(sign(s1, m), sign(s2, m))) )
        => Outcome = "true"

C8_Witness ==
  /\ Finished
  /\ SinglePair(add(publicKeyOf(2), publicKeyOf(3)), "other")
  /\ signature = prepare(add(sign(2, "other"), sign(3, "other")))
  /\ Outcome = "true"

Whole == Append(inputs, once_pair(ty, signature))

\* C9: one verify_prepared call takes the caller's pairs once each and in
\* order, then the (negated generator, signature) pair last, runs one Miller
\* loop over all n+1 pairs, then one final exponentiation, then one
\* comparison; nothing is dropped, repeated or reordered and the final
\* exponentiation never comes before the accumulation is complete.
C9_TwoPhaseOrder ==
  mode = "verify" =>
    /\ taken \o iter \o (IF once THEN <<once_pair(ty, signature)>> ELSE <<>>)
         = Whole
    /\ Len(vec) = Len(taken)
    /\ nML <= 1 /\ nFE <= 1 /\ nCmp <= 1
    /\ nML = 1 =>
         /\ taken = Whole
         /\ Len(vec) = Len(inputs) + 1
         /\ vec[Len(vec)] = miller_loop_map(ty, once_pair(ty, signature))
    /\ pc = "final_exp" => fqk = miller_loop(ty, Whole)
    /\ nFE = 1 => nML = 1
    /\ pc = "unwrap" => fe = final_exponentiation(ty, miller_loop(ty, Whole))
    /\ nCmp = 1 => (nFE = 1 /\ fe.some)
    /\ pc = "done" =>
         /\ nML = 1 /\ nFE = 1 /\ nCmp = 1
         /\ ret = (IF fe.val = FqkOne THEN "true" ELSE "false")

C9_Witness ==
  /\ mode = "verify" /\ pc = "done"
  /\ Len(inputs) = 2 /\ inputs[1] # inputs[2]
  /\ Len(vec) = 3
  /\ nML = 1 /\ nFE = 1 /\ nCmp = 1

\* C10: TinyBLS::miller_loop hands the library the same number of tuples in
\* the same order with the two components of each swapped into (G1, G2)
\* order, UsualBLS::miller_loop hands the sequence over unchanged, and for a
\* single pair the finally exponentiated result is the strategy's
\* pairing(p, q): E::pairing(q, p) for TinyBLS, E::pairing(p, q) for UsualBLS.
C10_Orientation ==
  (Len(ty) = 1 /\ mode # "none") =>
    /\ Len(vec) = Len(taken)
    /\ \A k \in 1 .. Len(vec) :
         /\ vec[k][1].grp = "G1" /\ vec[k][2].grp = "G2"
         /\ ty = <<"TinyBLS">> => vec[k] = <<taken[k][2], taken[k][1]>>
         /\ ty = <<"UsualBLS">> => vec[k] = taken[k]
    /\ pc = "ml_done" => (taken = inputs /\ Len(vec) = Len(inputs))
    /\ (mode = "miller" /\ pc = "ml_done" /\ Len(inputs) = 1) =>
         LET p == unprepare(inputs[1][1])
             q == unprepare(inputs[1][2])
         IN /\ final_exponentiation(ty, fqk).val = pairing(ty, p, q)
            /\ ty = <<"TinyBLS">> => pairing(ty, p, q) = E_pairing(q, p)
            /\ ty = <<"UsualBLS">> => pairing(ty, p, q) = E_pairing(p, q)

C10_Witness ==
  /\ ty = <<"TinyBLS">>
  /\ mode = "miller" /\ pc = "ml_done"
  /\ Len(inputs) = 1
  /\ inputs[1][1].pv = 2
  /\ vec = <<<<inputs[1][2], inputs[1][1]>>>>
  /\ fqk.c # 0

====
